---- MODULE Spec2Model ----
(***************************************************************************)
(* Endless-terrain chunk streaming (src/src/terrain/endless.rs) as a state *)
(* machine.  One frame of the engine is the sequence                       *)
(*   trigger_update, initialize_chunks, process_chunks, insert_chunks,     *)
(*   compute_chunk_visibility, rebuild_on_change, apply_buffers            *)
(* where apply_buffers is the end of the Update stage, at which the engine *)
(* applies the command buffers the systems filled (Commands are deferred). *)
(* Distances are compared through their squares, positions are integral.   *)
(***************************************************************************)
EXTENDS Integers, Sequences, FiniteSets, TLC

VARIABLES
    viewer_position,             \* FlyCam Transform.translation.xz(); << >> when no FlyCam entity exists
    last_chunk_update_position,  \* LastChunkUpdatePosition resource
    config,                      \* Config resource
    config_changed,              \* Config changed since rebuild_on_change last ran
    unread_initialize,           \* StartChunkUpdateEvent unread by initialize_chunks' reader
    unread_visibility,           \* StartChunkUpdateEvent unread by compute_chunk_visibility's reader
    seen_chunks,                 \* SeenChunks resource: set of [coords, level, entity]
    entities,                    \* live chunk entities: id -> components (task: level of the
                                 \* running task, snapshot: the Config that task captured)
    cmd_initialize,              \* command buffer of initialize_chunks (sequence)
    cmd_process,                 \* command buffer of process_chunks
    cmd_insert,                  \* command buffer of insert_chunks
    cmd_rebuild,                 \* command buffer of rebuild_on_change
    task_queue,                  \* AsyncComputeTaskPool: entities of the unfinished tasks, in spawn order
    init_before_insert,          \* order in which the stage applies the two unordered buffers
    workers,                     \* threads of the AsyncComputeTaskPool
    pc,                          \* the system that runs next in this frame
    last_selected,               \* history: level last selected per registered coordinate
    window_ran,                  \* history: initialize_chunks computed a window in this frame
    rebuilt,                     \* history: rebuild_on_change fired in the latest frame
    moves, changes,              \* history: camera moves and Config writes so far
    visibility_ran,              \* history: compute_chunk_visibility made a pass in this frame
    emitted,                     \* history: trigger_update sent StartChunkUpdateEvent in this frame
    w_viewer, w_config, w_out,   \* inputs and output of the window computation taken alone
    g_in, g_out                  \* inputs and output of a generation function taken alone

vars == <<viewer_position, last_chunk_update_position, config, config_changed,
          unread_initialize, unread_visibility, seen_chunks, entities,
          cmd_initialize, cmd_process, cmd_insert, cmd_rebuild, task_queue,
          init_before_insert, workers, pc, last_selected, window_ran, rebuilt, moves, changes,
          visibility_ran, emitted, w_viewer, w_config, w_out, g_in, g_out>>

streamVars == <<viewer_position, last_chunk_update_position, config, config_changed,
          unread_initialize, unread_visibility, seen_chunks, entities,
          cmd_initialize, cmd_process, cmd_insert, cmd_rebuild, task_queue,
          init_before_insert, workers, pc, last_selected, window_ran, rebuilt, moves, changes,
          visibility_ran, emitted>>

windowVars == <<w_viewer, w_config, w_out>>

genVars == <<g_in, g_out>>

----------------------------------------------------------------------------
(* Program constants *)

MAP_CHUNK_SIZE == 241

CHUNK_SIZE == MAP_CHUNK_SIZE - 1

\* CHUNK_SIZE as f32 * 0.1 rounds to 24.0 in f32
CHUNK_UPDATE_MOVEMENT_THRESHOLD == CHUNK_SIZE \div 10

SimplificationLevel_max == 6

----------------------------------------------------------------------------
(* Bounds *)

\* entity ids; an id is reused once its entity is despawned
MaxEntities == 16

\* the camera goes between x = 0 and x = 250, at most MaxMoves times, any
\* number of them between two frames, and the inspector writes Config at most
\* MaxConfigChanges times
MaxMoves == 1

MaxConfigChanges == 1

\* threads of the AsyncComputeTaskPool in Spec: tasks start in spawn order, and
\* at most that many of them run at a time
MaxWorkers == 1

EntityIds == 1..MaxEntities

Threshold(d, l) == [max_distance |-> d, level |-> l]

MkConfig(v, lo, me, hi) ==
    [max_view_distance |-> v,
     low_simplification_threshold |-> lo,
     medium_simplification_threshold |-> me,
     high_simplification_threshold |-> hi]

\* two settings of the inspectable Config, both with a one-chunk view range
ConfigA == MkConfig(400, Threshold(250, 1), Threshold(350, 2), Threshold(450, 4))

ConfigB == MkConfig(250, Threshold(240, 1), Threshold(300, 2), Threshold(400, 4))

\* the snapshot field of a chunk that has no task
NoSnapshot == MkConfig(0, Threshold(0, 0), Threshold(0, 0), Threshold(0, 0))

\* an edit in the inspector switches between the two settings
Edited(cfg) == IF cfg = ConfigA THEN ConfigB ELSE ConfigA

\* the window computation taken alone: viewers on a grid of 150 units around
\* the origin, and a Config with a view range of two chunk edges
MaxWindowViewer == 2

WindowViewers ==
    {<<i * 150, j * 150>> : i, j \in (-MaxWindowViewer)..MaxWindowViewer}

ConfigC == MkConfig(480, Threshold(240, 1), Threshold(400, 2), Threshold(480, 4))

\* thresholds that are not in ascending order
ConfigD == MkConfig(300, Threshold(300, 1), Threshold(200, 2), Threshold(250, 4))

WindowConfigs == {ConfigA, ConfigB, ConfigC, ConfigD}

----------------------------------------------------------------------------
(* ChunkCoords *)

\* Rust's `as i32` then `/`: both truncate toward zero
TruncDiv(a, b) == IF a >= 0 THEN a \div b ELSE -((-a) \div b)

from_position(position) ==
    <<TruncDiv(position[1], CHUNK_SIZE), TruncDiv(position[2], CHUNK_SIZE)>>

to_position_centre(coords) ==
    <<coords[1] * CHUNK_SIZE + CHUNK_SIZE \div 2, coords[2] * CHUNK_SIZE + CHUNK_SIZE \div 2>>

to_position(coords) == <<coords[1] * CHUNK_SIZE, coords[2] * CHUNK_SIZE>>

\* square of Vec2::distance
Distance2(a, b) == (a[1] - b[1]) * (a[1] - b[1]) + (a[2] - b[2]) * (a[2] - b[2])

Below_inclusive(d2, max_distance) == d2 <= max_distance * max_distance

\* distance < max_distance, for max_distance >= 0
Below(d2, max_distance) == d2 < max_distance * max_distance

----------------------------------------------------------------------------
(* initialize_chunks: the window and the level of each candidate *)

\* chunk_range: (-(n as i32))..(n as i32), a half-open Rust range, as a sequence
chunk_range(cfg) ==
    LET n == cfg.max_view_distance \div CHUNK_SIZE
    IN  [k \in 1..(2 * n) |-> k - 1 - n]

\* the candidates in the order of the two nested loops (y outer, x inner)
Candidates(viewer, cfg) ==
    LET r  == chunk_range(cfg)
        m  == Len(r)
        vc == from_position(viewer)
    IN  [k \in 1..(m * m) |->
            <<vc[1] + r[((k - 1) % m) + 1], vc[2] + r[((k - 1) \div m) + 1]>>]

\* the if / else-if chain over the three thresholds, d2 the squared distance
simplification_level(cfg, d2) ==
    IF Below(d2, cfg.low_simplification_threshold.max_distance)
    THEN cfg.low_simplification_threshold.level
    ELSE IF Below(d2, cfg.medium_simplification_threshold.max_distance)
    THEN cfg.medium_simplification_threshold.level
    ELSE IF Below(d2, cfg.high_simplification_threshold.max_distance)
    THEN cfg.high_simplification_threshold.level
    ELSE SimplificationLevel_max

LevelOf(viewer, cfg, coords) ==
    simplification_level(cfg, Distance2(to_position(coords), viewer))

\* Commands::spawn reserves an id that no live or reserved entity has
NewEntity(used) == CHOOSE e \in EntityIds \ used : \A f \in EntityIds \ used : e <= f

\* HashMap::get_mut
SeenGet(seen, coords) == {s \in seen : s.coords = coords}

\* HashMap::insert: replaces the entry of the key
SeenInsert(seen, coords, level, entity) ==
    (seen \ SeenGet(seen, coords))
        \cup {[coords |-> coords, level |-> level, entity |-> entity]}

SeenSetLevel_forgotten(seen, s, level) == seen

\* the level stored for an existing entry is overwritten, the entity kept
SeenSetLevel(seen, s, level) == (seen \ {s}) \cup {[s EXCEPT !.level = level]}

Remember(sel, coords, level) ==
    {p \in sel : p.coords # coords} \cup {[coords |-> coords, level |-> level]}

LevelChanged_always(existing, level) == TRUE

\* *existing_simplification_level != simplification_level
LevelChanged(existing, level) == existing # level

\* body of the loops for one candidate; st = [seen, cmds, used, selected]
ReconcileChunk(st, coords, level) ==
    LET found == SeenGet(st.seen, coords)
        sel   == Remember(st.selected, coords, level)
    IN  IF found # {}
        THEN LET s == CHOOSE s \in found : TRUE
             IN  IF LevelChanged(s.level, level)
                 THEN [st EXCEPT
                         !.seen = SeenSetLevel(st.seen, s, level),
                         !.cmds = Append(@, [op |-> "insert", entity |-> s.entity,
                                             coords |-> coords, level |-> level]),
                         !.selected = sel]
                 ELSE [st EXCEPT !.selected = sel]
        ELSE LET e == NewEntity(st.used)
             IN  [seen |-> SeenInsert(st.seen, coords, level, e),
                  cmds |-> Append(st.cmds, [op |-> "spawn", entity |-> e,
                                            coords |-> coords, level |-> level]),
                  used |-> st.used \cup {e},
                  selected |-> sel]

RECURSIVE WindowLoop(_, _, _, _, _)
WindowLoop(st, cands, k, viewer, cfg) ==
    IF k > Len(cands) THEN st
    ELSE \* the registry after candidate k, evaluated once, goes to the next turn
         CHOOSE r \in {WindowLoop(s, cands, k + 1, viewer, cfg) :
                s \in {ReconcileChunk(st, cands[k], LevelOf(viewer, cfg, cands[k]))}} : TRUE

Window_evicting(seen, live, selected, viewer, cfg) ==
    LET cands == Candidates(viewer, cfg)
        kept  == {s \in seen : \E k \in DOMAIN cands : cands[k] = s.coords}
    IN  WindowLoop([seen |-> kept, cmds |-> <<>>, used |-> live, selected |-> selected],
                   cands, 1, viewer, cfg)

\* the whole window computation on a registry
Window(seen, live, selected, viewer, cfg) ==
    WindowLoop([seen |-> seen, cmds |-> <<>>, used |-> live, selected |-> selected],
               Candidates(viewer, cfg), 1, viewer, cfg)

----------------------------------------------------------------------------
(* Applying the command buffers at the end of the stage *)

Live == DOMAIN entities

\* commands.spawn().insert(Chunk {..}).insert(Processing)
SpawnChunk(ents, c) ==
    [e \in DOMAIN ents \cup {c.entity} |->
        IF e = c.entity
        THEN [coords |-> c.coords, level |-> c.level, processing |-> TRUE,
              added |-> TRUE, task |-> 0, snapshot |-> NoSnapshot, mesh |-> 0,
              visible |-> FALSE]
        ELSE ents[e]]

RemarkChunk_respawn(ents, c) ==
    IF c.entity \notin DOMAIN ents THEN ents
    ELSE [ents EXCEPT ![c.entity] =
            [@ EXCEPT !.level = c.level, !.processing = TRUE, !.added = TRUE,
                      !.mesh = 0, !.visible = FALSE]]

\* commands.entity(e).insert(Processing).insert(Chunk {..}): a component the
\* entity already has is replaced, which does not count as Added
RemarkChunk(ents, c) ==
    IF c.entity \notin DOMAIN ents THEN ents
    ELSE [ents EXCEPT ![c.entity] =
            [@ EXCEPT !.level = c.level,
                      !.processing = TRUE,
                      !.added = IF @ = TRUE \/ ~ents[c.entity].processing
                                THEN TRUE ELSE FALSE]]

RECURSIVE ApplyInitialize(_, _, _)
ApplyInitialize(ents, cmds, k) ==
    IF k > Len(cmds) THEN ents
    ELSE ApplyInitialize(IF cmds[k].op = "spawn" THEN SpawnChunk(ents, cmds[k])
                         ELSE RemarkChunk(ents, cmds[k]),
                         cmds, k + 1)

\* commands.entity(entity).insert(task)
ApplyProcess(ents, cmds) ==
    [e \in DOMAIN ents |->
        IF \E c \in cmds : c.entity = e
        THEN LET c == CHOOSE c \in cmds : c.entity = e
             IN  [ents[e] EXCEPT !.task = c.level, !.snapshot = c.config]
        ELSE ents[e]]

InstallChunk_marked(ent, level) ==
    [ent EXCEPT !.mesh = level, !.visible = TRUE, !.task = 0, !.snapshot = NoSnapshot]

\* an install that removes the marker and leaves the task handle
InstallChunk_tasked(ent, level) ==
    [ent EXCEPT !.mesh = level, !.visible = TRUE,
                !.processing = FALSE, !.added = FALSE]

\* insert_bundle(PbrBundle {..}) with the default Visible, then
\* remove::<Processing>().remove::<Task<..>>()
InstallChunk(ent, level) ==
    [ent EXCEPT !.mesh = level, !.visible = TRUE,
                !.processing = FALSE, !.added = FALSE, !.task = 0,
                !.snapshot = NoSnapshot]

ApplyInsert(ents, cmds) ==
    [e \in DOMAIN ents |->
        IF \E c \in cmds : c.entity = e
        THEN InstallChunk(ents[e], (CHOOSE c \in cmds : c.entity = e).level)
        ELSE ents[e]]

\* despawn_recursive
ApplyRebuild(ents, cmds) == [e \in DOMAIN ents \ cmds |-> ents[e]]

\* the buffers of initialize_chunks and insert_chunks are applied in either
\* order (the systems are not ordered with each other), that of process_chunks
\* touches no entity the other two touch in the same frame, and that of
\* rebuild_on_change comes last (it is ordered after the others)
ApplyAll(ents, ci, cp, cn, cr, initFirst) ==
    LET a == IF initFirst
             THEN ApplyInsert(ApplyInitialize(ents, ci, 1), cn)
             ELSE ApplyInitialize(ApplyInsert(ents, cn), ci, 1)
    IN  ApplyRebuild(ApplyProcess(a, cp), cr)

----------------------------------------------------------------------------
(* The systems *)

Init ==
    /\ viewer_position = <<0, 0>>
    /\ last_chunk_update_position = <<0, 0>>
    /\ config = ConfigA
    /\ config_changed = TRUE          \* a resource counts as changed on a system's first run
    /\ unread_initialize = TRUE       \* setup sends StartChunkUpdateEvent
    /\ unread_visibility = TRUE
    /\ seen_chunks = {}
    /\ entities = << >>
    /\ cmd_initialize = << >>
    /\ cmd_process = {}
    /\ cmd_insert = {}
    /\ cmd_rebuild = {}
    /\ task_queue = << >>
    /\ init_before_insert \in BOOLEAN
    /\ workers = MaxWorkers
    /\ pc = "trigger_update"
    /\ last_selected = {}
    /\ window_ran = FALSE
    /\ rebuilt = FALSE
    /\ moves = 0
    /\ changes = 0
    /\ visibility_ran = FALSE
    /\ emitted = FALSE
    /\ w_viewer = <<0, 0>>
    /\ w_config = ConfigA
    /\ w_out = << >>
    /\ g_in = << >>
    /\ g_out = << >>

\* the camera moves between two frames: out across a chunk border, and back
MoveViewer ==
    /\ pc = "trigger_update"
    /\ moves < MaxMoves
    /\ moves' = moves + 1
    /\ viewer_position' = <<250 - viewer_position[1], viewer_position[2]>>
    /\ UNCHANGED <<changes, last_chunk_update_position, config, config_changed,
                   unread_initialize, unread_visibility, seen_chunks, entities,
                   cmd_initialize, cmd_process, cmd_insert, cmd_rebuild, task_queue,
                   init_before_insert, workers, pc, last_selected, window_ran, rebuilt,
                   visibility_ran, emitted>>
    /\ UNCHANGED <<windowVars, genVars>>

\* the inspector writes Config between two frames
ChangeConfig ==
    /\ pc = "trigger_update"
    /\ ~config_changed
    /\ changes < MaxConfigChanges
    /\ changes' = changes + 1
    /\ config' = Edited(config)
    /\ config_changed' = TRUE
    /\ UNCHANGED <<moves, viewer_position, last_chunk_update_position,
                   unread_initialize, unread_visibility, seen_chunks, entities,
                   cmd_initialize, cmd_process, cmd_insert, cmd_rebuild, task_queue,
                   init_before_insert, workers, pc, last_selected, window_ran, rebuilt,
                   visibility_ran, emitted>>
    /\ UNCHANGED <<windowVars, genVars>>

\* a send that reaches no reader
Sent_lost(unread) == unread

\* events.send(StartChunkUpdateEvent): the event is unread for every reader
\* until that reader next runs
Sent(unread) == TRUE

Moved_inclusive(viewer, last) ==
    Distance2(viewer, last) >= CHUNK_UPDATE_MOVEMENT_THRESHOLD * CHUNK_UPDATE_MOVEMENT_THRESHOLD

\* viewer_position.distance(last_chunk_update_position.0) > CHUNK_UPDATE_MOVEMENT_THRESHOLD
Moved(viewer, last) ==
    Distance2(viewer, last) > CHUNK_UPDATE_MOVEMENT_THRESHOLD * CHUNK_UPDATE_MOVEMENT_THRESHOLD

\* player_query.iter().nth(0) is None
NoViewer(viewer) == viewer = << >>

\* Option::unwrap on None panics; a panic in a system ends the app
Panic ==
    /\ pc' = "panicked"
    /\ UNCHANGED <<viewer_position, last_chunk_update_position, config, config_changed,
                   unread_initialize, unread_visibility, seen_chunks, entities,
                   cmd_initialize, cmd_process, cmd_insert, cmd_rebuild, task_queue,
                   init_before_insert, workers, last_selected, window_ran, rebuilt>>
    /\ UNCHANGED <<moves, changes, visibility_ran, emitted>>
    /\ UNCHANGED <<windowVars, genVars>>

trigger_update ==
    /\ pc = "trigger_update"
    /\ IF NoViewer(viewer_position)
       THEN Panic
       ELSE /\ IF Moved(viewer_position, last_chunk_update_position)
               THEN /\ last_chunk_update_position' = viewer_position
                    /\ unread_initialize' = Sent(unread_initialize)
                    /\ unread_visibility' = Sent(unread_visibility)
               ELSE UNCHANGED <<last_chunk_update_position, unread_initialize,
                                unread_visibility>>
            /\ emitted' = Moved(viewer_position, last_chunk_update_position)
            /\ window_ran' = FALSE
            /\ pc' = "initialize_chunks"
            /\ UNCHANGED <<viewer_position, config, config_changed, seen_chunks, entities,
                           cmd_initialize, cmd_process, cmd_insert, cmd_rebuild, task_queue,
                           init_before_insert, workers, last_selected, rebuilt>>
            /\ UNCHANGED <<moves, changes, visibility_ran>>
            /\ UNCHANGED <<windowVars, genVars>>

\* a reader that leaves the events it has seen pending
Consumed_peek(unread) == unread

\* EventReader::iter yields every unread event once: nothing is left unread
Consumed(unread) == FALSE

initialize_chunks_early ==
    /\ pc = "initialize_chunks"
    /\ pc' = "process_chunks"
    /\ UNCHANGED <<viewer_position, last_chunk_update_position, config, config_changed,
                   unread_initialize, unread_visibility, seen_chunks, entities,
                   cmd_initialize, cmd_process, cmd_insert, cmd_rebuild, task_queue,
                   init_before_insert, workers, last_selected, window_ran, rebuilt>>
    /\ UNCHANGED <<moves, changes, visibility_ran, emitted>>
    /\ UNCHANGED <<windowVars, genVars>>

\* the early return on no event comes before the unwrap
initialize_chunks ==
    /\ pc = "initialize_chunks"
    /\ IF unread_initialize /\ NoViewer(viewer_position)
       THEN Panic
       ELSE /\ IF unread_initialize
               THEN LET r == Window(seen_chunks, Live, last_selected, viewer_position,
                                    config)
                    IN  /\ seen_chunks' = r.seen
                        /\ cmd_initialize' = r.cmds
                        /\ last_selected' = r.selected
                        /\ window_ran' = TRUE
               ELSE UNCHANGED <<seen_chunks, cmd_initialize, last_selected, window_ran>>
            /\ unread_initialize' = Consumed(unread_initialize)
            /\ pc' = "process_chunks"
            /\ UNCHANGED <<viewer_position, last_chunk_update_position, config,
                           config_changed, unread_visibility, entities, cmd_process,
                           cmd_insert, cmd_rebuild, task_queue, init_before_insert, workers,
                           rebuilt>>
            /\ UNCHANGED <<moves, changes, visibility_ran, emitted>>
            /\ UNCHANGED <<windowVars, genVars>>

\* Query<(Entity, &Chunk), Added<Processing>>
NewlyProcessing(ents) == {e \in DOMAIN ents : ents[e].processing /\ ents[e].added}

\* the query yields the entities in the order of their ids
RECURSIVE SpawnOrder(_)
SpawnOrder(es) ==
    IF es = {} THEN << >>
    ELSE LET e == CHOOSE e \in es : \A f \in es : e <= f
         IN  <<e>> \o SpawnOrder(es \ {e})

\* the level a task is spawned with is the level of the Chunk component, and
\* the async block owns a clone of Config
Dispatch(ents) ==
    {[entity |-> e, level |-> ents[e].level, config |-> config] :
        e \in NewlyProcessing(ents)}

process_chunks ==
    /\ pc = "process_chunks"
    /\ cmd_process' = Dispatch(entities)
    /\ task_queue' = task_queue \o SpawnOrder(NewlyProcessing(entities))
    /\ entities' = [e \in Live |-> [entities[e] EXCEPT !.added = FALSE]]
    /\ pc' = "insert_chunks"
    /\ UNCHANGED <<viewer_position, last_chunk_update_position, config, config_changed,
                   unread_initialize, unread_visibility, seen_chunks,
                   cmd_initialize, cmd_insert, cmd_rebuild,
                   init_before_insert, workers, last_selected, window_ran, rebuilt>>
    /\ UNCHANGED <<moves, changes, visibility_ran, emitted>>
    /\ UNCHANGED <<windowVars, genVars>>

\* Query<(Entity, &Chunk, &mut Task<..>)>
WithTask(ents) == {e \in DOMAIN ents : ents[e].task # 0}

Without(q, es) == SelectSeq(q, LAMBDA e : e \notin es)

\* the sets of tasks that can have finished: a task started before a finished
\* one and still running kept a thread busy while the finished one ran
CanFinish(q, done) ==
    \A i \in 1..Len(q) : q[i] \in done =>
        Cardinality({j \in 1..i : q[j] \notin done}) < workers

Harvest_first(ents, done) ==
    {[entity |-> e,
      level |-> ents[CHOOSE f \in done : \A g \in done : f <= g].task,
      config |-> ents[e].snapshot] : e \in done}

Harvest_live(ents, done) ==
    {[entity |-> e, level |-> ents[e].task, config |-> config] : e \in done}

\* what insert_chunks queues for the tasks whose poll_once returned Some: the
\* result of the task, generated at its level from the Config it captured
Harvest(ents, done) ==
    {[entity |-> e, level |-> ents[e].task, config |-> ents[e].snapshot] : e \in done}

\* insert_chunks waits for every task it polls
Polled_blocking(ents, done) == done = WithTask(ents)

\* future::poll_once never waits: the tasks that yield a result are those that
\* have finished when the system runs, whichever they are
Polled(ents, done) == done \subseteq WithTask(ents)

insert_chunks ==
    /\ pc = "insert_chunks"
    /\ \E done \in SUBSET WithTask(entities) :
          /\ Polled(entities, done)
          /\ CanFinish(task_queue, done)
          /\ cmd_insert' = Harvest(entities, done)
          /\ task_queue' = Without(task_queue, done)
    /\ pc' = "compute_chunk_visibility"
    /\ UNCHANGED <<viewer_position, last_chunk_update_position, config, config_changed,
                   unread_initialize, unread_visibility, seen_chunks, entities,
                   cmd_initialize, cmd_process, cmd_rebuild,
                   init_before_insert, workers, last_selected, window_ran, rebuilt>>
    /\ UNCHANGED <<moves, changes, visibility_ran, emitted>>
    /\ UNCHANGED <<windowVars, genVars>>

InView_exclusive(viewer, cfg, coords) ==
    Distance2(to_position(coords), viewer) < cfg.max_view_distance * cfg.max_view_distance

\* distance_from_viewer > max_view_distance hides, anything else shows
InView(viewer, cfg, coords) ==
    ~(Distance2(to_position(coords), viewer) > cfg.max_view_distance * cfg.max_view_distance)

\* Query<(&mut Visible, &Chunk)>: the chunks that got a PbrBundle
Visibility(ents, viewer, cfg) ==
    [e \in DOMAIN ents |->
        IF ents[e].mesh # 0
        THEN [ents[e] EXCEPT !.visible = InView(viewer, cfg, ents[e].coords)]
        ELSE ents[e]]

compute_chunk_visibility ==
    /\ pc = "compute_chunk_visibility"
    /\ IF unread_visibility /\ NoViewer(viewer_position)
       THEN Panic
       ELSE /\ IF unread_visibility
               THEN entities' = Visibility(entities, viewer_position, config)
               ELSE UNCHANGED entities
            /\ visibility_ran' = unread_visibility
            /\ unread_visibility' = Consumed(unread_visibility)
            /\ pc' = "rebuild_on_change"
            /\ UNCHANGED <<viewer_position, last_chunk_update_position, config,
                           config_changed, unread_initialize, seen_chunks,
                           cmd_initialize, cmd_process, cmd_insert, cmd_rebuild,
                           task_queue, init_before_insert, workers, last_selected, window_ran,
                           rebuilt>>
            /\ UNCHANGED <<moves, changes, emitted>>
            /\ UNCHANGED <<windowVars, genVars>>

Cleared_kept(seen) == seen

\* seen_chunks.clear()
Cleared(seen) == {}

Despawned_displayed(ents) == {e \in DOMAIN ents : ents[e].mesh # 0}

\* Query<(Entity, &Chunk)>: every chunk entity of the world, not the ones
\* whose spawn is still in a command buffer
Despawned(ents) == DOMAIN ents

rebuild_on_change ==
    /\ pc = "rebuild_on_change"
    /\ IF config_changed
       THEN /\ cmd_rebuild' = Despawned(entities)
            /\ seen_chunks' = Cleared(seen_chunks)
            /\ last_selected' = {}
            /\ unread_initialize' = Sent(unread_initialize)
            /\ unread_visibility' = Sent(unread_visibility)
       ELSE UNCHANGED <<cmd_rebuild, seen_chunks, last_selected,
                        unread_initialize, unread_visibility>>
    /\ rebuilt' = config_changed
    /\ config_changed' = FALSE
    /\ pc' = "apply_buffers"
    /\ UNCHANGED <<viewer_position, last_chunk_update_position, config, entities,
                   cmd_initialize, cmd_process, cmd_insert, task_queue,
                   init_before_insert, workers, window_ran>>
    /\ UNCHANGED <<moves, changes, visibility_ran, emitted>>
    /\ UNCHANGED <<windowVars, genVars>>

apply_buffers ==
    /\ pc = "apply_buffers"
    /\ entities' = ApplyAll(entities, cmd_initialize, cmd_process, cmd_insert,
                            cmd_rebuild, init_before_insert)
    /\ cmd_initialize' = << >>
    /\ cmd_process' = {}
    /\ cmd_insert' = {}
    /\ cmd_rebuild' = {}
    /\ task_queue' = Without(task_queue, cmd_rebuild)   \* a despawned chunk's Task is dropped
    /\ pc' = "trigger_update"
    /\ UNCHANGED <<viewer_position, last_chunk_update_position, config, config_changed,
                   unread_initialize, unread_visibility, seen_chunks,
                   init_before_insert, workers, last_selected, window_ran, rebuilt>>
    /\ visibility_ran' = FALSE
    /\ emitted' = FALSE
    /\ UNCHANGED <<moves, changes>>
    /\ UNCHANGED <<windowVars, genVars>>

Next ==
    \/ MoveViewer
    \/ ChangeConfig
    \/ trigger_update
    \/ initialize_chunks
    \/ process_chunks
    \/ insert_chunks
    \/ compute_chunk_visibility
    \/ rebuild_on_change
    \/ apply_buffers

Spec == Init /\ [][Next]_vars

TypeOK ==
    /\ pc \in {"trigger_update", "initialize_chunks", "process_chunks", "insert_chunks",
               "compute_chunk_visibility", "rebuild_on_change", "apply_buffers",
               "panicked"}
    /\ DOMAIN entities \subseteq EntityIds

----------------------------------------------------------------------------
(* Properties of the streaming controller *)

AfterWindow ==
    /\ window_ran
    /\ pc \in {"process_chunks", "insert_chunks", "compute_chunk_visibility",
               "rebuild_on_change"}

Registered == {s \in seen_chunks : s.entity \in Live}

\* C1: after a window computation each coordinate has at most one registry
\* entry, the level stored for every candidate of the window is the level
\* selected for it from the current viewer position, and the level stored for
\* any coordinate is the level most recently selected for it.
C1_RegistryLevels ==
    /\ \A s, t \in seen_chunks : s.coords = t.coords => s = t
    /\ \A s \in seen_chunks : [coords |-> s.coords, level |-> s.level] \in last_selected
    /\ AfterWindow =>
          LET cands == Candidates(viewer_position, config)
          IN  \A k \in DOMAIN cands :
                 \E s \in seen_chunks :
                    /\ s.coords = cands[k]
                    /\ s.level = LevelOf(viewer_position, config, cands[k])

\* a window was computed that overwrote the level of an existing entry
C1_Witness ==
    /\ AfterWindow
    /\ \E k \in DOMAIN cmd_initialize : cmd_initialize[k].op = "insert"

\* the level of the task that generates or generated the chunk's next mesh
InFlightLevel(e) ==
    IF entities[e].task # 0 THEN entities[e].task
    ELSE IF \E c \in cmd_process : c.entity = e
         THEN (CHOOSE c \in cmd_process : c.entity = e).level
         ELSE 0

\* C2: for every coordinate of the registry, the stored level is the level
\* of the task in flight for it, if there is one, and otherwise the level of
\* the mesh installed on its chunk once the chunk is Resident.
C2_RegistryMatchesMesh ==
    \A s \in Registered :
        LET e == s.entity
        IN  IF InFlightLevel(e) # 0
            THEN s.level = InFlightLevel(e)
            ELSE (entities[e].mesh # 0 /\ ~entities[e].processing)
                    => s.level = entities[e].mesh

\* C3: once rebuild_on_change has seen a Config change the registry is empty,
\* and when the frame ends no chunk that was in the world is left: up to the
\* next dispatch every chunk is one spawned in that frame, without mesh or task.
C3_FullRebuild ==
    /\ (rebuilt /\ pc \in {"apply_buffers", "trigger_update", "initialize_chunks"})
          => seen_chunks = {}
    /\ (rebuilt /\ pc \in {"trigger_update", "initialize_chunks", "process_chunks"})
          => /\ task_queue = << >>
             /\ \A e \in Live :
                   /\ entities[e].mesh = 0
                   /\ entities[e].task = 0
                   /\ entities[e].processing /\ entities[e].added

\* rebuild_on_change despawns displayed chunks and chunks with a running task
C3_Witness ==
    /\ rebuilt
    /\ pc = "apply_buffers"
    /\ \E e \in cmd_rebuild : entities[e].mesh # 0
    /\ \E e \in cmd_rebuild : entities[e].task # 0

\* C4: a second window computation right after the first, with the same viewer
\* position and Config, changes no registry entry and queues no command, so it
\* marks nothing Processing and leads to no dispatch.
C4_WindowIdempotent ==
    AfterWindow =>
        LET used == Live \cup {s.entity : s \in seen_chunks}
            r == Window(seen_chunks, used, last_selected, viewer_position, config)
        IN  /\ r.seen = seen_chunks
            /\ r.cmds = << >>
            /\ ApplyInitialize(entities, r.cmds, 1) = entities

\* the window holds a chunk that is Processing at the level selected for it
C4_Witness ==
    /\ AfterWindow
    /\ \E s \in Registered :
          /\ entities[s.entity].processing
          /\ entities[s.entity].task # 0
          /\ \E k \in DOMAIN Candidates(viewer_position, config) :
                Candidates(viewer_position, config)[k] = s.coords

\* C5: whenever window computation registered a level for a coordinate that is
\* not the level its chunk was last dispatched with, a dispatch follows: when
\* the frame ends the chunk is newly Processing, which is what process_chunks
\* dispatches on.
C5_RetargetDispatched ==
    pc = "trigger_update" =>
        \A s \in Registered :
            LET e == entities[s.entity]
                last == IF e.task # 0 THEN e.task ELSE e.mesh
            IN  last # s.level => (e.processing /\ e.added /\ e.level = s.level)

\* C6: a Resident chunk whose level window computation changes becomes
\* Processing at the new level with its mesh and visibility untouched; a chunk
\* that has a mesh keeps one, the mesh is only ever replaced by the result of
\* the chunk's task, and the chunk is hidden only for being out of view range.
C6_Step ==
    \A e \in Live \cap DOMAIN entities' :
        /\ entities[e].mesh # 0 =>
              /\ entities'[e].mesh # 0
              /\ entities'[e].mesh # entities[e].mesh
                    => entities'[e].mesh = entities[e].task
              /\ (entities[e].visible /\ ~entities'[e].visible)
                    => ~InView(viewer_position, config, entities[e].coords)
        /\ (/\ pc = "apply_buffers"
            /\ entities[e].mesh # 0 /\ ~entities[e].processing
            /\ \E k \in DOMAIN cmd_initialize : cmd_initialize[k].entity = e)
           => LET c == cmd_initialize[CHOOSE k \in DOMAIN cmd_initialize :
                                          cmd_initialize[k].entity = e]
              IN  /\ entities'[e].processing /\ entities'[e].added
                  /\ entities'[e].level = c.level
                  /\ entities'[e].mesh = entities[e].mesh
                  /\ entities'[e].visible = entities[e].visible

C6_OldMeshKept == [][C6_Step]_vars

\* a chunk displayed at level 1 is Processing at level 2
C6_Witness ==
    \E s \in Registered :
        /\ s.level = 2
        /\ entities[s.entity].processing
        /\ entities[s.entity].level = 2
        /\ entities[s.entity].mesh = 1
        /\ entities[s.entity].visible

\* C7: a completed task's result is installed only if the level the task
\* was dispatched with is the level registered for its coordinate (stated for
\* the frames in which the registry is not written).
C7_StaleDiscarded ==
    ~window_ran =>
        \A c \in cmd_insert : \A s \in seen_chunks :
            s.entity = c.entity => c.level = s.level

\* C8: no two unfinished generation tasks are for the same chunk coordinate.
C8_OneTaskPerCoordinate ==
    \A i, j \in DOMAIN task_queue :
        (/\ task_queue[i] \in Live /\ task_queue[j] \in Live
         /\ entities[task_queue[i]].coords = entities[task_queue[j]].coords)
            => i = j

ReMarked(e) ==
    \E k \in DOMAIN cmd_initialize :
        cmd_initialize[k].entity = e /\ cmd_initialize[k].op = "insert"

\* C14: insert_chunks polls the tasks without blocking and queues an install
\* for each completed task of a chunk, with that task's result; when the frame
\* ends a chunk whose task completed has that result as its mesh, no task
\* handle and no Processing marker (unless the window computation of the same
\* frame marked it again), and a chunk whose task has not completed still has
\* its task, its Processing marker and the mesh it had.
C14_Step ==
    /\ pc = "insert_chunks" =>
          /\ pc' = "compute_chunk_visibility"
          /\ entities' = entities
          /\ \A c \in cmd_insert' :
                c.entity \in WithTask(entities) /\ c.level = entities[c.entity].task
    /\ pc = "apply_buffers" =>
          \A e \in Live \cap DOMAIN entities' :
              IF \E c \in cmd_insert : c.entity = e
              THEN /\ entities'[e].mesh = entities[e].task
                   /\ entities'[e].task = 0
                   /\ entities'[e].processing => ReMarked(e)
              ELSE entities[e].task # 0 =>
                      /\ entities'[e].task = entities[e].task
                      /\ entities'[e].processing
                      /\ entities'[e].mesh = entities[e].mesh

C14_Harvest == [][C14_Step]_vars

\* a poll found the task of one chunk completed while the task of a chunk that
\* already displays a mesh is still running
C14_Witness ==
    /\ pc = "apply_buffers"
    /\ cmd_insert # {}
    /\ \E e \in WithTask(entities) :
          /\ entities[e].mesh # 0
          /\ \A c \in cmd_insert : c.entity # e

\* C17: the entity of every registry entry is a live chunk, or one whose spawn
\* the window computation of the running frame has queued, and is live when
\* the frame has ended; every outstanding task and every queued install is
\* that of a live chunk; after a teardown no registry entry and no task of a
\* despawned chunk is left.
C17_NoDangling ==
    /\ \A s \in seen_chunks :
          \/ s.entity \in Live
          \/ \E k \in DOMAIN cmd_initialize :
                cmd_initialize[k].op = "spawn" /\ cmd_initialize[k].entity = s.entity
    /\ pc = "trigger_update" => \A s \in seen_chunks : s.entity \in Live
    /\ \A i \in DOMAIN task_queue : task_queue[i] \in Live
    /\ \A c \in cmd_insert : c.entity \in Live
    /\ (rebuilt /\ pc = "trigger_update") => seen_chunks = {} /\ task_queue = << >>

\* a teardown of registered chunks: the registry is already empty and the
\* chunks about to be despawned include one with an outstanding task
C17_Witness ==
    /\ pc = "apply_buffers"
    /\ changes > 0
    /\ seen_chunks = {}
    /\ \E i \in DOMAIN task_queue :
          task_queue[i] \in cmd_rebuild /\ entities[task_queue[i]].task # 0

\* C18: a task works on the Config of its dispatch: process_chunks hands the
\* task the Config of that moment, nothing changes what a running task
\* captured, a Config write included, and the result insert_chunks harvests is
\* the one generated from the captured Config.
C18_Step ==
    /\ pc = "process_chunks" => \A d \in cmd_process' : d.config = config
    /\ \A e \in Live \cap DOMAIN entities' :
          (entities[e].task # 0 /\ entities'[e].task # 0)
              => entities'[e].snapshot = entities[e].snapshot
    /\ pc = "insert_chunks" =>
          \A c \in cmd_insert' : c.config = entities[c.entity].snapshot

C18_ConfigSnapshot == [][C18_Step]_vars

\* a result harvested after a Config write, generated from the Config before it
C18_Witness ==
    /\ pc = "compute_chunk_visibility"
    /\ \E c \in cmd_insert : c.config # config /\ c.config = Edited(config)

\* C19: in a tick in which trigger_update sent the update event, the window
\* computation and the visibility pass both act on it in that same tick, and
\* when the next tick's trigger_update is due the dispatches and harvests of
\* the tick are complete: their buffers are applied and every outstanding
\* task is attached to its chunk.
C19_TickOrder ==
    /\ (emitted /\ pc \in {"process_chunks", "insert_chunks", "compute_chunk_visibility",
                            "rebuild_on_change", "apply_buffers"}) => window_ran
    /\ (emitted /\ pc \in {"rebuild_on_change", "apply_buffers"}) => visibility_ran
    /\ pc = "trigger_update" =>
          /\ ~emitted
          /\ cmd_process = {} /\ cmd_insert = {}
          /\ \A i \in DOMAIN task_queue : entities[task_queue[i]].task # 0

\* a tick with a dispatch and a harvest in which trigger_update sent the event
\* and both the window computation and the visibility pass ran
C19_Witness ==
    /\ pc = "apply_buffers"
    /\ emitted /\ window_ran /\ visibility_ran
    /\ cmd_initialize # << >>
    /\ cmd_process # {}
    /\ cmd_insert # {}

\* a step in which rebuild_on_change tears the terrain down for a Config change
TearDown ==
    \/ pc = "rebuild_on_change" /\ config_changed
    \/ pc = "apply_buffers" /\ cmd_rebuild # {}

InWindow(coords) ==
    \E k \in DOMAIN Candidates(viewer_position, config) :
        Candidates(viewer_position, config)[k] = coords

\* C12: between Config changes the registry only grows: no step removes a
\* registry entry or despawns a chunk, the entry of a coordinate keeps its
\* entity, the entry of a coordinate outside the current candidate window keeps
\* its level, and the visibility pass changes nothing of a chunk but its
\* visible flag.
C12_Step ==
    (~TearDown /\ (seen_chunks' # seen_chunks \/ entities' # entities)) =>
        LET outside == {s \in seen_chunks : ~InWindow(s.coords)}
        IN  /\ outside \subseteq seen_chunks'
            /\ \A s \in seen_chunks \ outside :
                  \E t \in seen_chunks' :
                     t.coords = s.coords /\ t.entity = s.entity
            /\ Live \subseteq DOMAIN entities'
            /\ pc = "compute_chunk_visibility" =>
                  \A e \in Live :
                     [entities'[e] EXCEPT !.visible = FALSE]
                        = [entities[e] EXCEPT !.visible = FALSE]

C12_RegistryGrows == [][C12_Step]_vars

\* after a window computation a Resident chunk that is outside the candidate
\* window and out of view range is hidden, still registered and still alive
C12_Witness ==
    /\ AfterWindow
    /\ pc = "rebuild_on_change"
    /\ \E s \in Registered :
          /\ ~InWindow(s.coords)
          /\ entities[s.entity].mesh # 0
          /\ ~entities[s.entity].visible
          /\ ~InView(viewer_position, config, s.coords)

----------------------------------------------------------------------------
(* The window computation taken alone, on an empty registry *)

StreamIdle ==
    /\ viewer_position = <<0, 0>>
    /\ last_chunk_update_position = <<0, 0>>
    /\ config = ConfigA
    /\ config_changed = TRUE
    /\ unread_initialize = TRUE
    /\ unread_visibility = TRUE
    /\ seen_chunks = {}
    /\ entities = << >>
    /\ cmd_initialize = << >>
    /\ cmd_process = {}
    /\ cmd_insert = {}
    /\ cmd_rebuild = {}
    /\ task_queue = << >>
    /\ init_before_insert = TRUE
    /\ workers = MaxWorkers
    /\ pc = "trigger_update"
    /\ last_selected = {}
    /\ window_ran = FALSE
    /\ rebuilt = FALSE
    /\ moves = 0
    /\ changes = 0
    /\ visibility_ran = FALSE
    /\ emitted = FALSE

NoWindow == [ran |-> FALSE, levels |-> << >>]

InitWindow ==
    /\ StreamIdle
    /\ w_viewer \in WindowViewers
    /\ w_config \in WindowConfigs
    /\ w_out = NoWindow
    /\ g_in = << >>
    /\ g_out = << >>

\* the registry a first window computation builds, as coordinate -> level
WindowLevels(viewer, cfg) ==
    LET r == Window({}, {}, {}, viewer, cfg)
    IN  [c \in {s.coords : s \in r.seen} |->
            (CHOOSE s \in r.seen : s.coords = c).level]

window_compute ==
    /\ ~w_out.ran
    /\ w_out' = [ran |-> TRUE, levels |-> WindowLevels(w_viewer, w_config)]
    /\ UNCHANGED <<w_viewer, w_config>>
    /\ UNCHANGED <<streamVars, genVars>>

window_next_input ==
    /\ w_out.ran
    /\ w_viewer' \in WindowViewers
    /\ w_config' \in WindowConfigs
    /\ w_out' = NoWindow
    /\ UNCHANGED <<streamVars, genVars>>

NextWindow == window_compute \/ window_next_input

SpecWindow == InitWindow /\ [][NextWindow]_vars

CeilDiv(a, b) == (a + b - 1) \div b

\* C9: the candidates of a window computation are the coordinates of the
\* square from viewer_chunk - n to viewer_chunk + n inclusive on both axes,
\* n = ceil(max_view_distance / chunk edge): 25 coordinates, (-2,-2) to (2,2),
\* for a viewer at the origin and max_view_distance = 480.
C9_SquareWindow ==
    w_out.ran =>
        LET n  == CeilDiv(w_config.max_view_distance, CHUNK_SIZE)
            vc == from_position(w_viewer)
        IN  /\ DOMAIN w_out.levels =
                  {<<vc[1] + dx, vc[2] + dy>> : dx \in (-n)..n, dy \in (-n)..n}
            /\ (w_viewer = <<0, 0>> /\ w_config.max_view_distance = 2 * CHUNK_SIZE)
                  => /\ Cardinality(DOMAIN w_out.levels) = 25
                     /\ DOMAIN w_out.levels = ((-2)..2) \X ((-2)..2)

Bands(cfg) ==
    <<cfg.low_simplification_threshold, cfg.medium_simplification_threshold,
      cfg.high_simplification_threshold>>

\* C10: the level selected for a candidate is the level of the first of the
\* low, medium, high thresholds whose max_distance is strictly greater than the
\* distance from the viewer to the chunk origin, and 6 if there is none.
C10_FirstBand ==
    w_out.ran =>
        \A c \in DOMAIN w_out.levels :
            LET d2 == Distance2(to_position(c), w_viewer)
                b  == Bands(w_config)
                above == {i \in 1..3 : d2 < b[i].max_distance * b[i].max_distance}
            IN  IF above = {}
                THEN w_out.levels[c] = 6
                ELSE w_out.levels[c] =
                        b[CHOOSE i \in above : \A j \in above : i <= j].level

\* a window with a chunk exactly at the low threshold, which gets the medium
\* level, and a chunk beyond the high threshold, which gets level 6
C10_Witness ==
    /\ w_out.ran
    /\ \E c \in DOMAIN w_out.levels :
          /\ Distance2(to_position(c), w_viewer) =
                w_config.low_simplification_threshold.max_distance
                    * w_config.low_simplification_threshold.max_distance
          /\ w_out.levels[c] = w_config.medium_simplification_threshold.level
          /\ w_out.levels[c] # w_config.low_simplification_threshold.level
    /\ \E c \in DOMAIN w_out.levels :
          /\ Distance2(to_position(c), w_viewer) >=
                w_config.high_simplification_threshold.max_distance
                    * w_config.high_simplification_threshold.max_distance
          /\ w_out.levels[c] = 6

\* C20: for every world position p, with positive or negative components,
\* to_position(from_position(p)) is a chunk origin whose coordinate is
\* from_position(p), and from_position(to_position(c)) = c for every chunk
\* coordinate c.
C20_RoundTrip ==
    LET c == from_position(w_viewer)
        o == to_position(c)
    IN  /\ from_position(o) = c
        /\ o[1] % CHUNK_SIZE = 0 /\ o[2] % CHUNK_SIZE = 0
        /\ w_out.ran =>
              \A d \in DOMAIN w_out.levels : from_position(to_position(d)) = d

\* a window computed for a viewer off the grid with a negative x, with a
\* candidate of negative x and one of positive x
C20_Witness ==
    /\ w_out.ran
    /\ w_viewer[1] < 0 /\ w_viewer[1] % CHUNK_SIZE # 0
    /\ \E d \in DOMAIN w_out.levels : d[1] < 0 /\ d[2] < 0
    /\ \E d \in DOMAIN w_out.levels : d[1] < 0 /\ d[2] > 0

\* C21: from_position maps a world position, negative components included, to
\* the component-wise floor of position / 240, so that the coordinate c covers
\* exactly the world square [240 c, 240 c + 240) on each axis.
C21_FloorDivision ==
    w_out.ran =>
        LET c == from_position(w_viewer)
        IN  /\ c = <<w_viewer[1] \div CHUNK_SIZE, w_viewer[2] \div CHUNK_SIZE>>
            /\ \A i \in 1..2 :
                  /\ c[i] * CHUNK_SIZE <= w_viewer[i]
                  /\ w_viewer[i] < c[i] * CHUNK_SIZE + CHUNK_SIZE

\* the coordinates around the viewer that can be within max_view_distance
Surroundings(viewer, cfg) ==
    LET n  == CeilDiv(cfg.max_view_distance, CHUNK_SIZE) + 1
        vc == from_position(viewer)
    IN  {<<vc[1] + dx, vc[2] + dy>> : dx \in (-n)..n, dy \in (-n)..n}

\* C32: after a window computation every chunk coordinate whose origin is
\* within max_view_distance of the viewer, which the visibility pass would
\* show, has a registry entry, on every side of the viewer.
C32_InRangeRegistered ==
    w_out.ran =>
        \A c \in Surroundings(w_viewer, w_config) :
            InView(w_viewer, w_config, c) => c \in DOMAIN w_out.levels

----------------------------------------------------------------------------
(* The first systems of a tick, for a camera placed around the last update   *)
(* position or missing                                                       *)

\* displacements on either side of the movement threshold of 24 units
TickOffsets == {-25, -24, -17, 0, 16, 17, 24, 25}

TickViewers == {<<x, y>> : x, y \in TickOffsets} \cup {<< >>}

InitTick ==
    /\ viewer_position \in TickViewers
    /\ last_chunk_update_position = <<0, 0>>
    /\ config = ConfigA
    /\ config_changed = TRUE
    /\ unread_initialize = TRUE
    /\ unread_visibility = TRUE
    /\ seen_chunks = {}
    /\ entities = << >>
    /\ cmd_initialize = << >>
    /\ cmd_process = {}
    /\ cmd_insert = {}
    /\ cmd_rebuild = {}
    /\ task_queue = << >>
    /\ init_before_insert = TRUE
    /\ workers = MaxWorkers
    /\ pc = "trigger_update"
    /\ last_selected = {}
    /\ window_ran = FALSE
    /\ rebuilt = FALSE
    /\ moves = 0
    /\ changes = 0
    /\ visibility_ran = FALSE
    /\ emitted = FALSE
    /\ w_viewer = <<0, 0>>
    /\ w_config = ConfigA
    /\ w_out = << >>
    /\ g_in = << >>
    /\ g_out = << >>

\* the app is started again with the camera somewhere else
tick_next_input ==
    /\ pc \in {"process_chunks", "panicked"}
    /\ viewer_position' \in TickViewers
    /\ last_chunk_update_position' = <<0, 0>>
    /\ unread_initialize' = TRUE
    /\ unread_visibility' = TRUE
    /\ seen_chunks' = {}
    /\ cmd_initialize' = << >>
    /\ last_selected' = {}
    /\ window_ran' = FALSE
    /\ emitted' = FALSE
    /\ pc' = "trigger_update"
    /\ UNCHANGED <<config, config_changed, entities, cmd_process, cmd_insert,
                   cmd_rebuild, task_queue, init_before_insert, workers, rebuilt, moves, changes,
                   visibility_ran>>
    /\ UNCHANGED <<windowVars, genVars>>

NextTick == trigger_update \/ initialize_chunks \/ tick_next_input

SpecTick == InitTick /\ [][NextTick]_vars

\* C13: trigger_update sends the update event if and only if the distance
\* between the viewer and the last update position is strictly greater than 24
\* units, a tenth of the chunk edge of 240; it sets the last update position to
\* the viewer position when it sends and leaves it unchanged otherwise.
C13_Step ==
    (pc = "trigger_update" /\ pc' = "initialize_chunks") =>
        LET far == Distance2(viewer_position, last_chunk_update_position) > 24 * 24
        IN  /\ 10 * 24 = CHUNK_SIZE
            /\ emitted' = far
            /\ far => unread_initialize' /\ unread_visibility'
            /\ ~far => UNCHANGED <<unread_initialize, unread_visibility>>
            /\ last_chunk_update_position' =
                  IF far THEN viewer_position ELSE last_chunk_update_position

C13_TriggerThreshold == [][C13_Step]_vars

\* trigger_update ran for a camera exactly 24 units from the last update
\* position and sent nothing
C13_Witness ==
    /\ pc = "initialize_chunks"
    /\ viewer_position \in {<<24, 0>>, <<0, -24>>}
    /\ last_chunk_update_position = <<0, 0>>
    /\ ~emitted

\* C16: when no viewer entity exists, trigger_update, initialize_chunks and
\* compute_chunk_visibility do not fail and change nothing: the last update
\* position, the registry, the chunks and the command buffer stay as they are.
C16_Step ==
    (/\ NoViewer(viewer_position)
     /\ pc \in {"trigger_update", "initialize_chunks", "compute_chunk_visibility"})
        => /\ pc' # "panicked"
           /\ UNCHANGED <<last_chunk_update_position, seen_chunks, entities,
                          cmd_initialize>>

C16_NoViewerNoop == [][C16_Step]_vars

----------------------------------------------------------------------------
(* The controller with a camera at rest, an untouched Config and a pool with *)
(* a thread for every task: the tasks complete in any order                  *)

InitHarvest ==
    /\ viewer_position = <<0, 0>>
    /\ last_chunk_update_position = <<0, 0>>
    /\ config = ConfigA
    /\ config_changed = TRUE
    /\ unread_initialize = TRUE
    /\ unread_visibility = TRUE
    /\ seen_chunks = {}
    /\ entities = << >>
    /\ cmd_initialize = << >>
    /\ cmd_process = {}
    /\ cmd_insert = {}
    /\ cmd_rebuild = {}
    /\ task_queue = << >>
    /\ init_before_insert \in BOOLEAN
    /\ workers = MaxEntities
    /\ pc = "trigger_update"
    /\ last_selected = {}
    /\ window_ran = FALSE
    /\ rebuilt = FALSE
    /\ moves = 0
    /\ changes = 0
    /\ visibility_ran = FALSE
    /\ emitted = FALSE
    /\ w_viewer = <<0, 0>>
    /\ w_config = ConfigA
    /\ w_out = << >>
    /\ g_in = << >>
    /\ g_out = << >>

NextHarvest ==
    \/ trigger_update
    \/ initialize_chunks
    \/ process_chunks
    \/ insert_chunks
    \/ compute_chunk_visibility
    \/ rebuild_on_change
    \/ apply_buffers

SpecHarvest == InitHarvest /\ [][NextHarvest]_vars

\* every dispatched task was harvested
Quiescent ==
    /\ pc = "trigger_update"
    /\ Live # {}
    /\ task_queue = << >>
    /\ \A e \in Live : ~entities[e].processing /\ entities[e].task = 0

RegistryLevels(seen) ==
    [c \in {s.coords : s \in seen} |-> (CHOOSE s \in seen : s.coords = c).level]

\* C15: with the camera at rest and Config untouched, whatever the order in
\* which the tasks complete, once all of them are harvested the registry is
\* the one the window computation built and every chunk displays the level it
\* was dispatched with, which is the level selected for its coordinate.
C15_AnyOrder ==
    Quiescent =>
        /\ RegistryLevels(seen_chunks) = WindowLevels(viewer_position, config)
        /\ \A e \in Live :
              entities[e].mesh = LevelOf(viewer_position, config, entities[e].coords)

\* all tasks are harvested and the chunks display different levels
C15_Witness ==
    /\ Quiescent
    /\ seen_chunks # {}
    /\ \E e, f \in Live : entities[e].mesh = 1 /\ entities[f].mesh = 2

\* a task dispatched later was harvested while one dispatched before it runs
C15_OutOfOrder ==
    \E i \in DOMAIN task_queue : \E e \in Live :
        /\ e > task_queue[i]
        /\ entities[e].mesh # 0
        /\ entities[task_queue[i]].mesh = 0

\* the step of insert_chunks in which the task of e stays unfinished and every
\* other task is harvested
AllBut(e) ==
    /\ insert_chunks
    /\ task_queue' = SelectSeq(task_queue, LAMBDA f : f = e \/ f \notin WithTask(entities))

\* C25: a task that does not complete holds up nothing but its own chunk:
\* whenever insert_chunks runs, for every task it polls, the step in which that
\* task is still unfinished and all the other tasks are harvested is possible,
\* and so is the step in which nothing has finished; no system fails; and a
\* chunk whose task stays unfinished through a step keeps its Processing
\* marker, its task and the mesh it displayed.
C25_Waiting ==
    pc = "insert_chunks" =>
        /\ ENABLED (insert_chunks /\ task_queue' = task_queue)
        /\ \A e \in WithTask(entities) : ENABLED AllBut(e)

C25_Step ==
    /\ pc' # "panicked"
    /\ \A e \in WithTask(entities) :
          (\E i \in DOMAIN task_queue' : task_queue'[i] = e) =>
              /\ e \in DOMAIN entities'
              /\ entities'[e].processing
              /\ entities'[e].task = entities[e].task
              /\ entities'[e].mesh = entities[e].mesh

generate_noise_map(cfg) ==
    [config   |-> cfg,
     size     |-> <<MAP_CHUNK_SIZE, MAP_CHUNK_SIZE>>,
     x_bounds |-> <<-1, 1>>,
     y_bounds |-> <<-1, 1>>]

\* the region of the noise field that the task of a dispatch command samples
SampledRegion(cmd) ==
    LET noise_map == generate_noise_map(cmd.config)
    IN  <<noise_map.x_bounds, noise_map.y_bounds>>

\* C26: the task dispatched for a chunk generates the height map of that
\* chunk's coordinate: two chunks at different coordinates dispatched under the
\* same Config and level sample different regions of the noise field.
C26_TaskOfCoordinate ==
    \A c, d \in cmd_process :
        (/\ entities[c.entity].coords # entities[d.entity].coords
         /\ c.config = d.config
         /\ c.level = d.level)
            => SampledRegion(c) # SampledRegion(d)

\* C27: in a tick with no update event pending initialize_chunks and
\* compute_chunk_visibility change nothing; a window computation or a
\* visibility pass happens only for a pending event and consumes it, so an
\* event causes at most one of each; and an event becomes pending only when
\* trigger_update or rebuild_on_change sends it (setup sends the first).
C27_Step ==
    /\ (pc = "initialize_chunks" /\ ~unread_initialize) =>
          /\ UNCHANGED <<seen_chunks, entities, cmd_initialize, last_selected>>
          /\ ~window_ran'
    /\ (pc = "compute_chunk_visibility" /\ ~unread_visibility) =>
          /\ UNCHANGED <<seen_chunks, entities>>
          /\ ~visibility_ran'
    /\ (pc = "initialize_chunks" /\ unread_initialize) => ~unread_initialize'
    /\ (pc = "compute_chunk_visibility" /\ unread_visibility) => ~unread_visibility'
    /\ ((~unread_initialize /\ unread_initialize') \/ (~unread_visibility /\ unread_visibility')) =>
          \/ pc = "trigger_update" /\ emitted'
          \/ pc = "rebuild_on_change" /\ config_changed

C27_Debounce == [][C27_Step]_vars

\* the end of a tick in which the camera is where the last update left it, no
\* event was pending, and neither system did anything, although chunks are
\* registered and tasks are still running
C27_Witness ==
    /\ pc = "rebuild_on_change"
    /\ ~config_changed
    /\ ~emitted /\ ~window_ran /\ ~visibility_ran
    /\ ~unread_initialize /\ ~unread_visibility
    /\ seen_chunks # {}
    /\ task_queue # << >>
    /\ moves > 0

----------------------------------------------------------------------------
(* The chunk entities and the registry, between two ticks *)

\* C31: between two ticks there is at most one live chunk entity per chunk
\* coordinate, and every live chunk entity is the one the registry maps its
\* coordinate to, also after a tick in which the window computation queued
\* spawns and rebuild_on_change cleared the registry.
C31_OneEntityPerCoordinate ==
    pc = "trigger_update" =>
        /\ \A e, f \in Live : entities[e].coords = entities[f].coords => e = f
        /\ \A e \in Live : \E s \in seen_chunks :
              s.coords = entities[e].coords /\ s.entity = e

\* Resident: the task of the chunk was harvested and its mesh installed
Resident(e) ==
    /\ entities[e].mesh # 0
    /\ ~entities[e].processing
    /\ entities[e].task = 0

\* C33: between two ticks (what is rendered), a Resident chunk whose origin is
\* farther than max_view_distance from the viewer position of the most recent
\* update is not visible, also when insert_chunks installed its mesh after the
\* last visibility pass.
C33_HiddenOutOfRange ==
    (pc = "trigger_update" /\ ~config_changed) =>
        \A e \in Live :
            (Resident(e) /\ ~InView(last_chunk_update_position, config, entities[e].coords))
                => ~entities[e].visible

\* the tasks in the pool that belong to the chunk entity e
Outstanding(e) == \E i \in DOMAIN task_queue : task_queue[i] = e

\* C35: a chunk entity has a task handle only while it has the Processing
\* marker, and a chunk without the marker has no unfinished task in the pool.
C35_TaskOnlyWhileProcessing ==
    \A e \in Live :
        /\ entities[e].task # 0 => entities[e].processing
        /\ ~entities[e].processing => ~Outstanding(e)

\* C35, the steps: the end of a tick removes the task handle of every chunk
\* whose completed task insert_chunks harvested, together with its Processing
\* marker (which the chunk has afterwards only if the window computation of the
\* same tick marked it again), and no step takes the marker from a chunk and
\* leaves it a task handle.
C35_Step ==
    /\ \A c \in cmd_insert :
          (pc = "apply_buffers" /\ c.entity \in DOMAIN entities') =>
              /\ entities'[c.entity].task = 0
              /\ entities'[c.entity].processing => ReMarked(c.entity)
    /\ \A e \in Live \cap DOMAIN entities' :
          (entities[e].processing /\ ~entities'[e].processing) =>
              /\ entities[e].task # 0
              /\ entities'[e].task = 0

C35_TaskImpliesProcessing == []C35_TaskOnlyWhileProcessing /\ [][C35_Step]_vars

\* between two ticks a chunk is Resident after its task was harvested, while
\* another chunk still has both its task handle and its marker
C35_Witness ==
    /\ pc = "trigger_update"
    /\ \E e \in Live : Resident(e) /\ ~Outstanding(e)
    /\ \E e \in Live : entities[e].task # 0 /\ entities[e].processing /\ Outstanding(e)

----------------------------------------------------------------------------
(* Progress.  The app runs the systems of a tick one after the other, tick  *)
(* after tick, for as long as it lives: the steps of the tick are weakly    *)
(* fair.  The camera and the inspector may act (a bounded number of times)  *)
(* and need not.                                                            *)

Frame ==
    \/ trigger_update
    \/ initialize_chunks
    \/ process_chunks
    \/ insert_chunks
    \/ compute_chunk_visibility
    \/ rebuild_on_change
    \/ apply_buffers

\* a Config that the inspector edits, and a camera at rest
NextRebuild ==
    \/ ChangeConfig
    \/ trigger_update
    \/ initialize_chunks
    \/ process_chunks
    \/ insert_chunks
    \/ compute_chunk_visibility
    \/ rebuild_on_change
    \/ apply_buffers

SpecRebuild == Init /\ [][NextRebuild]_vars /\ WF_vars(Frame)

\* rebuild_on_change has just seen a changed Config
RebuildFired == pc = "apply_buffers" /\ rebuilt

\* initialize_chunks has consumed the event of the rebuild of the tick before,
\* with no event from trigger_update, and the registry is the one a window
\* computation builds from nothing around the viewer under the current Config
Repopulated ==
    /\ pc = "process_chunks"
    /\ rebuilt /\ window_ran /\ ~emitted
    /\ ~unread_initialize
    /\ seen_chunks # {}
    /\ RegistryLevels(seen_chunks) = WindowLevels(viewer_position, config)

\* C36: every Config change that rebuild_on_change sees is followed, with the
\* camera at rest, by a window computation in a later tick, which consumes the
\* event rebuild_on_change sent and repopulates the emptied registry around the
\* current viewer position.
C36_ConfigChangeRecomputes == RebuildFired ~> Repopulated

\* the window computation that follows an edit of Config in the inspector
C36_Witness ==
    /\ Repopulated
    /\ changes > 0
    /\ config = ConfigB
    /\ moves = 0

\* insert_chunks finds at least one task completed
HarvestSome == insert_chunks /\ cmd_insert' # {}

\* the whole controller: every tick runs, and a task that can run does not
\* stay unfinished for ever (the tasks are finitely many once the camera and
\* the inspector rest, so each of them completes)
SpecLive == Init /\ [][Next]_vars /\ WF_vars(Frame) /\ SF_vars(HarvestSome)

\* every registered coordinate has a live Resident chunk that displays the
\* registered level
AllResident ==
    \A s \in seen_chunks :
        /\ s.entity \in Live
        /\ Resident(s.entity)
        /\ entities[s.entity].mesh = s.level

\* C34: if every dispatched task completes and the camera and Config come to
\* rest, then from some point on every coordinate of the registry has a
\* Resident chunk (no Processing marker, no task handle) whose installed mesh
\* has the registered level.
C34_EventuallyResident == <>[]AllResident

----------------------------------------------------------------------------
(* HeightMap::generate taken alone (src/src/terrain/height_map.rs): heights  *)
(* are in hundredths, amplitudes in thousandths, and a sample point is kept  *)
(* as the exact fraction the code divides out                                *)

\* chunk coordinates from -MaxNoiseCoord to MaxNoiseCoord on both axes
MaxNoiseCoord == 1

\* the fields of Config that the height map reads
NoiseConfig(o, s) == [octaves |-> o, scale |-> s, lacunarity |-> 2, persistence_den |-> 2]

NoiseConfigs == {NoiseConfig(o, s) : o \in {1, 2}, s \in {1, 2}}

NoiseCoords == ((-MaxNoiseCoord)..MaxNoiseCoord) \X ((-MaxNoiseCoord)..MaxNoiseCoord)

\* (Vec2(x, y) + chunk_offset) / Vec2(241, 241) / (scale * frequency)
Sample_local(x, y, chunk_offset, scale, frequency) ==
    [num |-> <<x, y>>, den |-> MAP_CHUNK_SIZE * scale * frequency]

Sample(x, y, chunk_offset, scale, frequency) ==
    [num |-> <<x + chunk_offset[1], y + chunk_offset[2]>>,
     den |-> MAP_CHUNK_SIZE * scale * frequency]

\* Perlin::get: a fixed function of the sample point, between -50 and 50
Perlin(sample) ==
    ((sample.num[1] * 7 + sample.num[2] * 13 + sample.num[1] * sample.num[2]
        + sample.den) % 101) - 50

\* the loop over the octaves, from octave k on
RECURSIVE Octaves(_, _, _, _, _, _, _)
Octaves(cfg, x, y, chunk_offset, k, amplitude, frequency) ==
    IF k >= cfg.octaves
    THEN 0
    ELSE Perlin(Sample(x, y, chunk_offset, cfg.scale, frequency)) * amplitude
            + Octaves(cfg, x, y, chunk_offset, k + 1,
                      amplitude \div cfg.persistence_den, frequency * cfg.lacunarity)

generate_noise(cfg, chunk_coords) ==
    LET chunk_offset == to_position(chunk_coords)
    IN  [y \in 0..(MAP_CHUNK_SIZE - 1) |->
            [x \in 0..(MAP_CHUNK_SIZE - 1) |->
                Octaves(cfg, x, y, chunk_offset, 0, 1000, 1)]]

\* the estimate of the largest height: amplitudes shrinking by persistence * 0.9,
\* the sum stretched by 1.1
RECURSIVE AmplitudeSum(_, _, _)
AmplitudeSum(cfg, k, amplitude) ==
    IF k >= cfg.octaves
    THEN 0
    ELSE amplitude
            + AmplitudeSum(cfg, k + 1, (amplitude * 9) \div (10 * cfg.persistence_den))

max_possible_height(cfg) == (AmplitudeSum(cfg, 0, 1000) * 11) \div 10

Clamp(v, lo, hi) == IF v < lo THEN lo ELSE IF v > hi THEN hi ELSE v

\* nalgebra_glm::smoothstep(edge0, edge1, v) in thousandths, result in hundredths
smoothstep(edge0, edge1, v) ==
    LET t == Clamp(((v - edge0) * 1000) \div (edge1 - edge0), 0, 1000)
    IN  (t * t * (3000 - 2 * t)) \div 10000000

\* every height becomes smoothstep(-spread, spread, height / max_possible_height)
normalize(cfg, data) ==
    LET mph    == max_possible_height(cfg)
        spread == mph \div 2
    IN  [y \in DOMAIN data |->
            [x \in DOMAIN data[y] |->
                smoothstep(-spread, spread, (data[y][x] * 20) \div mph)]]

HeightMap_generate(cfg, chunk_coords) == normalize(cfg, generate_noise(cfg, chunk_coords))

WindowIdle ==
    /\ w_viewer = <<0, 0>>
    /\ w_config = ConfigA
    /\ w_out = << >>

NoHeightMap == [ran |-> FALSE, normalized |-> FALSE, data |-> << >>]

InitNoise ==
    /\ StreamIdle
    /\ WindowIdle
    /\ g_in \in [config : NoiseConfigs, coords : NoiseCoords]
    /\ g_out = NoHeightMap

\* HeightMap::generate_noise
noise_generate ==
    /\ ~g_out.ran
    /\ g_out' = [ran |-> TRUE, normalized |-> FALSE,
                 data |-> generate_noise(g_in.config, g_in.coords)]
    /\ UNCHANGED g_in
    /\ UNCHANGED <<streamVars, windowVars>>

\* HeightMap::normalize, which ends HeightMap::generate
noise_normalize ==
    /\ g_out.ran /\ ~g_out.normalized
    /\ g_out' = [g_out EXCEPT !.normalized = TRUE,
                              !.data = normalize(g_in.config, g_out.data)]
    /\ UNCHANGED g_in
    /\ UNCHANGED <<streamVars, windowVars>>

noise_next_input ==
    /\ g_out.normalized
    /\ g_in' \in [config : NoiseConfigs, coords : NoiseCoords]
    /\ g_out' = NoHeightMap
    /\ UNCHANGED <<streamVars, windowVars>>

NextNoise == noise_generate \/ noise_normalize \/ noise_next_input

SpecNoise == InitNoise /\ [][NextNoise]_vars

Last == MAP_CHUNK_SIZE - 1

\* the height map of a neighbour at the stage g_out is in
NeighbourMap(coords) ==
    IF g_out.normalized
    THEN HeightMap_generate(g_in.config, coords)
    ELSE generate_noise(g_in.config, coords)

\* C22: under one Config the height map of a chunk agrees, before and after
\* normalization, on its last column with the first column of its right
\* neighbour and on its last row with the first row of the neighbour below,
\* because both sample the same world points.
C22_SeamlessBorders ==
    g_out.ran =>
        LET cfg   == g_in.config
            c     == g_in.coords
            right == NeighbourMap(<<c[1] + 1, c[2]>>)
            below == NeighbourMap(<<c[1], c[2] + 1>>)
        IN  \A i \in 0..Last :
               /\ g_out.data[i][Last] = right[i][0]
               /\ g_out.data[Last][i] = below[0][i]
               /\ Sample(Last, i, to_position(c), cfg.scale, 1)
                     = Sample(0, i, to_position(<<c[1] + 1, c[2]>>), cfg.scale, 1)
               /\ Sample(i, Last, to_position(c), cfg.scale, 1)
                     = Sample(i, 0, to_position(<<c[1], c[2] + 1>>), cfg.scale, 1)

\* the normalized height map of a chunk with negative coordinates whose shared
\* column is not flat and differs from the column next to it and from the
\* chunk's own first column
C22_Witness ==
    /\ g_out.normalized
    /\ g_in.coords[1] < 0 /\ g_in.coords[2] < 0
    /\ g_in.config.octaves > 1
    /\ \E i, j \in 0..Last : g_out.data[i][Last] # g_out.data[j][Last]
    /\ \E i \in 0..Last : g_out.data[i][Last] # g_out.data[i][Last - 1]
    /\ \E i \in 0..Last : g_out.data[i][0] # g_out.data[i][Last]

----------------------------------------------------------------------------
(* The body of a generation task taken alone, on a height map it is given:   *)
(* texture::generate (src/src/terrain/texture.rs), then Generator::new,      *)
(* Generator::generate and Generator::collider_shape (src/src/terrain/       *)
(* mesh.rs).  Buffers are functions from 0; heights and colours are in       *)
(* hundredths.                                                               *)

\* height maps are at most MaxMapWidth samples wide
MaxMapWidth == 13

\* heights on either side of the colour thresholds and beyond all of them
HeightPalette == <<0, 34, 35, 42, 43, 50, 84, 85, 100, 250, -20>>

\* a height map of the given width, one for each seed
HeightPattern(width, seed) ==
    [y \in 0..(width - 1) |->
        [x \in 0..(width - 1) |->
            HeightPalette[((x * seed + y * (seed + 2) + x * y) % Len(HeightPalette)) + 1]]]

simplification_increment(level) == IF level = 0 THEN 1 ELSE level * 2

\* the last sample of the grid is a multiple of every increment, as 240 is of
\* 1, 2, 4, 6, 8, 10 and 12
MeshInputs ==
    {[level |-> l, height_map |-> HeightPattern(w, seed)] :
        <<w, l, seed>> \in
            {t \in (2..MaxMapWidth) \X (0..SimplificationLevel_max) \X (1..3) :
                (t[1] - 1) % simplification_increment(t[2]) = 0}}

\* texture.rs: the bands of generate_color_map
Under_inclusive(height, max_height) == height <= max_height

Under(height, max_height) == height < max_height

color_of(height) ==
    IF Under(height, 35) THEN <<0, 10, 80>>
    ELSE IF Under(height, 43) THEN <<90, 78, 1>>
    ELSE IF Under(height, 85) THEN <<1, 90, 5>>
    ELSE <<65, 65, 65>>

\* the colours are pushed row by row
generate_color_map(height_map) ==
    LET len == Cardinality(DOMAIN height_map)
    IN  [size   |-> <<len, len>>,
         colors |-> [i \in 0..(len * len - 1) |-> color_of(height_map[i \div len][i % len])]]

\* four bytes for every colour: (c * 255.) as u8 of r, g, b, then 255
generate_texture(color_map) ==
    [size |-> color_map.size,
     data |-> [i \in 0..(4 * Cardinality(DOMAIN color_map.colors) - 1) |->
                 IF i % 4 = 3
                 THEN 255
                 ELSE (color_map.colors[i \div 4][(i % 4) + 1] * 255) \div 100]]

Filled(n, value) == [i \in 0..(n - 1) |-> value]

\* mesh.rs: Generator::new (height_scale is stored and never read)
Generator_new(height_map, level) ==
    LET map_width == Cardinality(DOMAIN height_map)
    IN  [height_map               |-> height_map,
         simplification_level     |-> level,
         simplification_increment |-> simplification_increment(level),
         vertices_per_line        |-> (map_width - 1) \div simplification_increment(level) + 1,
         map_width                |-> map_width,
         vertices                 |-> << >>,
         triangles                |-> << >>,
         uvs                      |-> << >>,
         normals                  |-> << >>,
         triangles_index          |-> 0]

add_triangle(g, a, b, c) ==
    [g EXCEPT !.triangles = [@ EXCEPT ![g.triangles_index] = a,
                                      ![g.triangles_index + 1] = b,
                                      ![g.triangles_index + 2] = c],
              !.triangles_index = @ + 3]

\* the inner while loop of generate: the samples of row y from x on; the
\* result carries the vertex index reached
RECURSIVE generate_row(_, _, _, _)
generate_row(g, x, y, vertex_index) ==
    IF x >= g.map_width
    THEN [generator |-> g, vertex_index |-> vertex_index]
    ELSE LET height       == g.height_map[y][x]
             g1           == [g EXCEPT !.vertices[vertex_index] = <<x, height, y>>,
                                       !.uvs[vertex_index] = <<x, y>>]
             top_left     == vertex_index
             top_right    == vertex_index + 1
             bottom_left  == vertex_index + g.vertices_per_line
             bottom_right == vertex_index + g.vertices_per_line + 1
             g2           == IF x < g.map_width - 1 /\ y < g.map_width - 1
                             THEN add_triangle(
                                     add_triangle(g1, bottom_right, top_left, bottom_left),
                                     top_left, bottom_right, top_right)
                             ELSE g1
         IN  generate_row(g2, x + g.simplification_increment, y, vertex_index + 1)

\* the outer while loop of generate, from row y on
RECURSIVE generate_loop(_, _, _)
generate_loop(g, y, vertex_index) ==
    IF y >= g.map_width
    THEN g
    ELSE LET row == generate_row(g, 0, y, vertex_index)
         IN  generate_loop(row.generator, y + g.simplification_increment, row.vertex_index)

\* (b - a).cross(c - a)
face_normal(a, b, c) ==
    LET u == <<b[1] - a[1], b[2] - a[2], b[3] - a[3]>>
        v == <<c[1] - a[1], c[2] - a[2], c[3] - a[3]>>
    IN  <<u[2] * v[3] - u[3] * v[2], u[3] * v[1] - u[1] * v[3], u[1] * v[2] - u[2] * v[1]>>

\* the loop over triangles.chunks_exact(3), from the k-th triple up to the
\* triple `stop`
RECURSIVE normals_of_triples(_, _, _)
normals_of_triples(g, k, stop) ==
    IF k >= stop
    THEN g
    ELSE LET a == g.triangles[3 * k]
             b == g.triangles[3 * k + 1]
             c == g.triangles[3 * k + 2]
             normal == face_normal(g.vertices[a], g.vertices[b], g.vertices[c])
         IN  normals_of_triples(
                [g EXCEPT !.normals = [@ EXCEPT ![a] = normal, ![b] = normal, ![c] = normal]],
                k + 1, stop)

Min(a, b) == IF a <= b THEN a ELSE b

\* calculate_normals: all the triples of the index buffer in order, taken
\* 2 * map_width at a time
RECURSIVE calculate_normals(_, _)
calculate_normals(g, k) ==
    LET triples == Cardinality(DOMAIN g.triangles) \div 3
    IN  IF k >= triples
        THEN g
        ELSE calculate_normals(
                normals_of_triples(g, k, Min(k + 2 * g.map_width, triples)),
                k + 2 * g.map_width)

Generator_generate(g) ==
    LET map_size == g.map_width * g.map_width
        g0 == [g EXCEPT !.vertices = Filled(map_size, <<0, 0, 0>>),
                        !.normals = Filled(map_size, <<0, 0, 0>>),
                        !.uvs = Filled(map_size, <<0, 0>>),
                        !.triangles = Filled((g.map_width - 1) * (g.map_width - 1) * 6, 0),
                        !.triangles_index = 0]
    IN  calculate_normals(generate_loop(g0, 0, 0), 0)

\* the vertex attributes and the index buffer handed to the renderer
graphics_mesh(g) ==
    [indices |-> g.triangles, position |-> g.vertices, uv_0 |-> g.uvs, normal |-> g.normals]

\* DMatrix::from_iterator fills the matrix column by column
collider_shape(g) ==
    LET iter == [i \in DOMAIN g.vertices |-> 0]
    IN  [heights |-> [r \in 0..(g.map_width - 1) |->
                        [c \in 0..(g.map_width - 1) |-> iter[c * g.map_width + r]]],
         scale   |-> <<g.map_width, 1, g.map_width>>]

NoMesh == [stage |-> "input", color_map |-> << >>, texture |-> << >>, generator |-> << >>,
           mesh |-> << >>, collider |-> << >>]

InitMesh ==
    /\ StreamIdle
    /\ WindowIdle
    /\ g_in \in MeshInputs
    /\ g_out = NoMesh

texture_generate ==
    /\ g_out.stage = "input"
    /\ LET color_map == generate_color_map(g_in.height_map)
       IN  g_out' = [g_out EXCEPT !.stage = "texture",
                                  !.color_map = color_map,
                                  !.texture = generate_texture(color_map)]
    /\ UNCHANGED g_in
    /\ UNCHANGED <<streamVars, windowVars>>

mesh_generate ==
    /\ g_out.stage = "texture"
    /\ LET g == Generator_generate(Generator_new(g_in.height_map, g_in.level))
       IN  g_out' = [g_out EXCEPT !.stage = "mesh", !.generator = g, !.mesh = graphics_mesh(g)]
    /\ UNCHANGED g_in
    /\ UNCHANGED <<streamVars, windowVars>>

mesh_collider ==
    /\ g_out.stage = "mesh"
    /\ g_out' = [g_out EXCEPT !.stage = "collider",
                              !.collider = collider_shape(g_out.generator)]
    /\ UNCHANGED g_in
    /\ UNCHANGED <<streamVars, windowVars>>

mesh_next_input ==
    /\ g_out.stage = "collider"
    /\ g_in' \in MeshInputs
    /\ g_out' = NoMesh
    /\ UNCHANGED <<streamVars, windowVars>>

NextMesh == texture_generate \/ mesh_generate \/ mesh_collider \/ mesh_next_input

SpecMesh == InitMesh /\ [][NextMesh]_vars

Generated == g_out.stage \in {"mesh", "collider"}

\* vertices_per_line of the 241-wide grid at a level
PerLine241(level) ==
    Generator_new(Filled(MAP_CHUNK_SIZE, Filled(MAP_CHUNK_SIZE, 0)), level).vertices_per_line

\* C23: on the 241-wide grid vertices_per_line = (241 - 1) / (level * 2) + 1
\* does not increase as the level goes from 1 to 6, and the mesh that generate
\* produces at a level from 1 to 6 has vertices_per_line squared vertices.
C23_VertexCount ==
    /\ \A l \in 1..(SimplificationLevel_max - 1) :
          /\ PerLine241(l) = (241 - 1) \div (l * 2) + 1
          /\ PerLine241(l) >= PerLine241(l + 1)
    /\ (Generated /\ g_in.level >= 1) =>
          Cardinality(DOMAIN g_out.mesh.position)
             = g_out.generator.vertices_per_line * g_out.generator.vertices_per_line

\* the bands of the scenario: thresholds 0.35, 0.43, 0.85 and 2.0
ScenarioBands ==
    <<[max_height |-> 35, color |-> <<0, 10, 80>>],
      [max_height |-> 43, color |-> <<90, 78, 1>>],
      [max_height |-> 85, color |-> <<1, 90, 5>>],
      [max_height |-> 200, color |-> <<65, 65, 65>>]>>

FirstBandAbove(height) ==
    LET above == {i \in DOMAIN ScenarioBands : ScenarioBands[i].max_height > height}
    IN  IF above = {}
        THEN Len(ScenarioBands)
        ELSE CHOOSE i \in above : \A j \in above : i <= j

\* C24: the colour of every sample of the colour map is the colour of the first
\* band, in ascending order of threshold, whose max_height is strictly greater
\* than the sample's height (0.5 gets the third band, a height equal to a
\* threshold the band after it), and of the last band when the height exceeds
\* every threshold.
C24_FirstBandColor ==
    g_out.stage # "input" =>
        LET len == Cardinality(DOMAIN g_in.height_map)
        IN  /\ DOMAIN g_out.color_map.colors = 0..(len * len - 1)
            /\ \A y, x \in 0..(len - 1) :
                  g_out.color_map.colors[y * len + x]
                     = ScenarioBands[FirstBandAbove(g_in.height_map[y][x])].color
            /\ FirstBandAbove(50) = 3

\* a colour map with a sample of height 0.5 in the third band, one exactly at
\* 0.43 in the third band, one exactly at 0.35 in the second, and one of
\* height 2.5 in the last
C24_Witness ==
    /\ g_out.stage # "input"
    /\ LET len == Cardinality(DOMAIN g_in.height_map)
           HasColor(height, band) ==
               \E y, x \in 0..(len - 1) :
                  /\ g_in.height_map[y][x] = height
                  /\ g_out.color_map.colors[y * len + x] = ScenarioBands[band].color
       IN  /\ HasColor(50, 3)
           /\ HasColor(43, 3)
           /\ HasColor(35, 2)
           /\ HasColor(250, 4)

\* the triples of the index buffer, in order
Triples(triangles) ==
    [k \in 0..(Cardinality(DOMAIN triangles) \div 3 - 1) |->
        <<triangles[3 * k], triangles[3 * k + 1], triangles[3 * k + 2]>>]

\* the two triangles of the quad whose top left vertex is tl, on a grid of n
\* vertices per line
QuadTriangles(tl, n) == <<<<tl + n + 1, tl, tl + n>>, <<tl, tl + n + 1, tl + 1>>>>

\* C28: at every level the index buffer holds, for each quad of the decimated
\* grid in row order, its two triangles, always wound the same way; every
\* index is that of a vertex emitted at the level; and the buffer holds no
\* other triangle.
C28_TwoTrianglesPerQuad ==
    Generated =>
        LET n       == g_out.generator.vertices_per_line
            triples == Triples(g_out.mesh.indices)
        IN  /\ \A r, c \in 0..(n - 2) :
                  LET q == r * (n - 1) + c
                  IN  /\ 2 * q + 1 \in DOMAIN triples
                      /\ triples[2 * q] = QuadTriangles(r * n + c, n)[1]
                      /\ triples[2 * q + 1] = QuadTriangles(r * n + c, n)[2]
            /\ \A k \in DOMAIN triples : \A i \in 1..3 : triples[k][i] < n * n
            /\ Cardinality(DOMAIN triples) = 2 * (n - 1) * (n - 1)

\* C29: after generate the normal of every emitted vertex is the face normal
\* of the last of the quad triangles, in the order they were emitted, that
\* refers to the vertex, at every level.
C29_LastTriangleNormal ==
    Generated =>
        LET n       == g_out.generator.vertices_per_line
            triples == Triples(g_out.mesh.indices)
            quads   == {k \in DOMAIN triples : k < 2 * (n - 1) * (n - 1)}
        IN  \A v \in 0..(n * n - 1) :
               LET touching == {k \in quads : \E i \in 1..3 : triples[k][i] = v}
                   last     == CHOOSE k \in touching : \A j \in touching : j <= k
               IN  touching # {} =>
                      g_out.mesh.normal[v] =
                         face_normal(g_out.mesh.position[triples[last][1]],
                                     g_out.mesh.position[triples[last][2]],
                                     g_out.mesh.position[triples[last][3]])

\* C30: the collision heightfield is a map_width x map_width matrix whose entry
\* for a grid sample is the height of that sample in the height map, at every
\* level.
C30_ColliderHeights ==
    g_out.stage = "collider" =>
        LET w == Cardinality(DOMAIN g_in.height_map)
            h == g_out.collider.heights
        IN  /\ DOMAIN h = 0..(w - 1)
            /\ \A r \in 0..(w - 1) : DOMAIN h[r] = 0..(w - 1)
            /\ \/ \A y, x \in 0..(w - 1) : h[y][x] = g_in.height_map[y][x]
               \/ \A y, x \in 0..(w - 1) : h[x][y] = g_in.height_map[y][x]

====
